---------------------------- MODULE Spec2Model ----------------------------
(***************************************************************************)
(* VibeCodePulse: the retrying upstream invoker (withRetry), the feed      *)
(* merge inside loadNews, its persistence in localStorage and the sync     *)
(* cycle of the App component.                                             *)
(*                                                                         *)
(* Text values that the code inspects character by character are modelled  *)
(* as sequences of one-character strings.                                  *)
(***************************************************************************)
EXTENDS Integers, Sequences, FiniteSets, TLC

(***************************************************************************)
(* Bounds of the model.                                                    *)
(***************************************************************************)
NumIds == 2            \* distinct item ids the upstream can deliver
NumVersions == 2       \* distinct contents (title, snippet, ...) per id
MaxBatch == 2          \* longest batch one fetch delivers
MaxCycles == 2         \* loadNews calls that can be in flight together
MaxRetriesBound == 3   \* largest maxRetries handed to withRetry
MaxPieces == 3         \* pieces a raw url handed to sanitizeUrl is made of
MaxLines == 2          \* lines of the text handed to parseGroundedNews
MaxChunks == 2         \* citations handed to parseGroundedNews
MaxShown == 3          \* items of the history handed to the filteredNews memo

(***************************************************************************)
(* Program constants.                                                      *)
(***************************************************************************)
DefaultRetries == 3
DefaultDelay == 1500
StatusUnavailable == 503
StatusRateLimited == 429

(***************************************************************************)
(* Strings.                                                                *)
(***************************************************************************)
UpperChars == <<"A","B","C","D","E","F","G","H","I","J","K","L","M",
                "N","O","P","Q","R","S","T","U","V","W","X","Y","Z">>
LowerChars == <<"a","b","c","d","e","f","g","h","i","j","k","l","m",
                "n","o","p","q","r","s","t","u","v","w","x","y","z">>

ToLowerChar(c) ==
    IF \E i \in DOMAIN UpperChars : UpperChars[i] = c
    THEN LowerChars[CHOOSE i \in DOMAIN UpperChars : UpperChars[i] = c]
    ELSE c

\* String.prototype.toLowerCase
ToLowerCase(s) == [i \in DOMAIN s |-> ToLowerChar(s[i])]

\* String.prototype.includes: t occurs in s as a contiguous substring
Includes(s, t) ==
    \E i \in 0..(Len(s) - Len(t)) : SubSeq(s, i + 1, i + Len(t)) = t

DigitChars == <<"1","2","3","4","5","6","7","8","9">>

(***************************************************************************)
(* Characters and the string operations of the parsing pipeline.           *)
(***************************************************************************)
\* the characters with char codes 32..126, in code order ("U+0060" stands for
\* the grave accent, which a string of this language cannot hold)
AsciiChars == <<" ","!","\"","#","$","%","&","'","(",")","*","+",",","-",".","/",
                "0","1","2","3","4","5","6","7","8","9",":",";","<","=",">","?",
                "@","A","B","C","D","E","F","G","H","I","J","K","L","M","N","O",
                "P","Q","R","S","T","U","V","W","X","Y","Z","[","\\","]","^","_",
                "U+0060","a","b","c","d","e","f","g","h","i","j","k","l","m","n","o",
                "p","q","r","s","t","u","v","w","x","y","z","{","|","}","~">>

\* the bullet character U+2022, one UTF-16 code unit
Bullet == "U+2022"

\* the characters the regular-expression class \s and trim() treat as blank
WhiteSpace == {" ", "\t", "\n", "\r"}

\* the char code of every character of the model
CharCodes ==
    [c \in {AsciiChars[i] : i \in DOMAIN AsciiChars} \cup {"\t", "\n", "\r", Bullet} |->
        IF \E i \in DOMAIN AsciiChars : AsciiChars[i] = c
        THEN 31 + (CHOOSE i \in DOMAIN AsciiChars : AsciiChars[i] = c)
        ELSE CASE c = "\t" -> 9
               [] c = "\n" -> 10
               [] c = "\r" -> 13
               [] c = Bullet -> 8226]

\* String.prototype.charCodeAt for one character
CharCode(c) == CharCodes[c]

\* String.prototype.substring(from, to), indices counted from 0
Substring(s, from, to) ==
    LET lo == IF from < 0 THEN 0 ELSE IF from > Len(s) THEN Len(s) ELSE from
        hi == IF to < 0 THEN 0 ELSE IF to > Len(s) THEN Len(s) ELSE to
    IN  IF lo <= hi THEN SubSeq(s, lo + 1, hi) ELSE SubSeq(s, hi + 1, lo)

\* String.prototype.startsWith
StartsWith(s, t) == Substring(s, 0, Len(t)) = t

\* String.prototype.indexOf, counted from 0; -1 when t does not occur
IndexOf(s, t) ==
    LET at == {i \in 0..(Len(s) - Len(t)) : \A k \in DOMAIN t : s[i + k] = t[k]}
    IN  IF at = {} THEN -1 ELSE CHOOSE i \in at : \A j \in at : i <= j

\* String.prototype.trim
Trim(s) ==
    LET solid == {i \in DOMAIN s : s[i] \notin WhiteSpace}
    IN  IF solid = {} THEN <<>>
        ELSE SubSeq(s, CHOOSE i \in solid : \A j \in solid : i <= j,
                       CHOOSE i \in solid : \A j \in solid : j <= i)

\* String.prototype.split with a string separator
RECURSIVE Split(_, _)
Split(s, sep) ==
    LET i == IndexOf(s, sep)
    IN  IF i = -1 THEN <<s>>
        ELSE <<Substring(s, 0, i)>> \o Split(Substring(s, i + Len(sep), Len(s)), sep)

\* String.prototype.split(/\s+/): cut at every run of blanks
RECURSIVE SplitBlanks(_)
SplitBlanks(s) ==
    LET blank == {i \in DOMAIN s : s[i] \in WhiteSpace}
    IN  IF blank = {} THEN <<s>>
        ELSE LET first == CHOOSE i \in blank : \A j \in blank : i <= j
                 after == {i \in first..Len(s) : s[i] \notin WhiteSpace}
                 next  == IF after = {} THEN Len(s) + 1
                          ELSE CHOOSE i \in after : \A j \in after : i <= j
             IN  <<SubSeq(s, 1, first - 1)>> \o SplitBlanks(SubSeq(s, next, Len(s)))

\* the literals the pipeline looks for
Ellipsis == <<".",".",".">>
ExampleDotCom == <<"e","x","a","m","p","l","e",".","c","o","m">>
YourUrlHere == <<"y","o","u","r","-","u","r","l","-","h","e","r","e">>
HttpPrefix == <<"h","t","t","p">>
HttpScheme == <<"h","t","t","p",":","/","/">>
HttpsScheme == <<"h","t","t","p","s",":","/","/">>
ItemMarker == <<"[","I","T","E","M","]">>
FieldSeparator == <<">",">",">">>
IdPrefix == <<"v","i","b","e","-">>

(***************************************************************************)
(* sanitizeUrl.                                                            *)
(***************************************************************************)
\* where "\((https?:\/\/[^\s\)]+)\)" can match with its "(" at index p (from 1):
\* the index of the closing ")", or 0 when it cannot
MarkdownClose(s, p) ==
    LET scheme == IF Substring(s, p, p + Len(HttpsScheme)) = HttpsScheme
                  THEN Len(HttpsScheme)
                  ELSE IF Substring(s, p, p + Len(HttpScheme)) = HttpScheme
                  THEN Len(HttpScheme)
                  ELSE 0
        first == p + scheme + 1
        stops == {j \in first..Len(s) : s[j] \in WhiteSpace \cup {")"}}
        stop  == IF stops = {} THEN 0 ELSE CHOOSE j \in stops : \A k \in stops : j <= k
    IN  IF s[p] = "(" /\ scheme > 0 /\ stop > first /\ s[stop] = ")" THEN stop ELSE 0

\* clean.match(/\[?.*?\]?\((https?:\/\/[^\s\)]+)\)/): the leftmost match's
\* group 1, or Undef when there is no match
MarkdownMatch(s) ==
    LET at == {p \in DOMAIN s : MarkdownClose(s, p) > 0}
    IN  IF at = {} THEN [type |-> "undefined"]
        ELSE LET p == CHOOSE i \in at : \A j \in at : i <= j
             IN  [type |-> "string", chars |-> SubSeq(s, p + 1, MarkdownClose(s, p) - 1)]

\* clean.replace(/[.,;!]$/, '')
StripTrailingPunctuation(s) ==
    IF s # <<>> /\ s[Len(s)] \in {".", ",", ";", "!"} THEN SubSeq(s, 1, Len(s) - 1) ELSE s

\* the steps of sanitizeUrl after the trailing punctuation is gone
SanitizeStripped(clean) ==
    IF Includes(clean, Ellipsis) /\ Len(clean) < 20 THEN <<>>
    ELSE IF Includes(clean, ExampleDotCom) \/ Includes(clean, YourUrlHere) THEN <<>>
    ELSE IF clean # <<>> /\ ~StartsWith(clean, HttpPrefix) /\ Includes(clean, <<".">>)
    THEN HttpsScheme \o clean
    ELSE clean

sanitizeUrl(url) ==
    IF url = <<>> THEN <<>>
    ELSE LET trimmed == Trim(url)
             mdMatch == MarkdownMatch(trimmed)
             clean   == IF mdMatch.type = "string" THEN mdMatch.chars ELSE trimmed
         IN  SanitizeStripped(StripTrailingPunctuation(clean))

(***************************************************************************)
(* generateIdFromUrl.  A 32-bit word is kept as its two 16-bit halves,     *)
(* [hi, lo], standing for hi * 65536 + lo taken modulo 2^32.               *)
(***************************************************************************)
Word(hi, lo) == [hi |-> hi % 65536, lo |-> lo % 65536]

\* hash << 5
ShiftLeft5(w) == Word(w.hi * 32 + (w.lo * 32) \div 65536, w.lo * 32)

\* a - b on 32 bits
WordMinus(a, b) ==
    IF a.lo >= b.lo THEN Word(a.hi - b.hi + 65536, a.lo - b.lo)
    ELSE Word(a.hi - b.hi - 1 + 65536, a.lo - b.lo + 65536)

\* w + char on 32 bits, char a UTF-16 code unit
WordPlus(w, char) == Word(w.hi + (w.lo + char) \div 65536, w.lo + char)

\* hash = ((hash << 5) - hash) + char; hash |= 0
HashStep(hash, char) == WordPlus(WordMinus(ShiftLeft5(hash), hash), char)

RECURSIVE HashFrom(_, _, _)
\* the for loop over the characters, from index i (from 1); the test on next
\* only settles the value of one iteration before the next one starts
HashFrom(url, i, hash) ==
    IF i > Len(url) THEN hash
    ELSE LET next == HashStep(hash, CharCode(url[i]))
         IN  IF next \in [hi : Nat, lo : Nat] THEN HashFrom(url, i + 1, next) ELSE hash

\* variant: the word is taken as it is, unsigned
MathAbsNone(w) == w

\* Math.abs of the word read as a signed 32-bit integer: a magnitude in
\* 0..2^31, again as [hi, lo] (hi = 32768, lo = 0 for 2^31)
MathAbs(w) ==
    IF w.hi < 32768 THEN w
    ELSE IF w.lo = 0 THEN [hi |-> 65536 - w.hi, lo |-> 0]
    ELSE [hi |-> 65535 - w.hi, lo |-> 65536 - w.lo]

Base36Digits == <<"0","1","2","3","4","5","6","7","8","9","a","b","c","d","e","f","g","h",
                  "i","j","k","l","m","n","o","p","q","r","s","t","u","v","w","x","y","z">>

RECURSIVE ToBase36(_)
\* Number.prototype.toString(36) of a magnitude [hi, lo]
ToBase36(m) ==
    LET rest  == (m.hi % 36) * 65536 + m.lo
        q     == [hi |-> m.hi \div 36, lo |-> rest \div 36]
        digit == <<Base36Digits[(rest % 36) + 1]>>
    IN  IF q.hi = 0 /\ q.lo = 0 THEN digit ELSE ToBase36(q) \o digit

generateIdFromUrl(url) ==
    IdPrefix \o ToBase36(MathAbs(HashFrom(url, 1, Word(0, 0))))

(***************************************************************************)
(* News items.  An item delivered by fetchAIDevNews carries the nine       *)
(* NewsItem fields; an item of the history carries isNew as well.          *)
(***************************************************************************)
ItemKeys == <<"id", "title", "snippet", "source", "platform", "url",
              "category", "tool", "publishedAt", "isNew">>

ContentKeys == {"title", "snippet", "source", "platform", "url",
                "category", "tool", "publishedAt"}

CategoryTags == << <<"n","e","w","s">>,
                   <<"o","f","f","i","c","i","a","l">>,
                   <<"s","o","c","i","a","l">>,
                   <<"t","u","t","o","r","i","a","l">>,
                   <<"c","o","m","m","u","n","i","t","y">> >>

CategoryOfVersion(v) == CategoryTags[((v - 1) % Len(CategoryTags)) + 1]

IdOf(n) == <<"vibe-", DigitChars[n]>>

Ids == {IdOf(n) : n \in 1..NumIds}

\* The n-th id as delivered with its v-th content.
NewsItem(n, v) ==
    [id          |-> IdOf(n),
     title       |-> <<"T", "i", "t", "l", "e", " ", DigitChars[n], DigitChars[v]>>,
     snippet     |-> <<"s", "n", "i", "p", " ", DigitChars[v]>>,
     source      |-> <<"src", DigitChars[v]>>,
     platform    |-> <<"plat", DigitChars[v]>>,
     url         |-> <<"https://", DigitChars[n], DigitChars[v]>>,
     category    |-> CategoryOfVersion(v),
     tool        |-> <<"tool", DigitChars[v]>>,
     publishedAt |-> <<"2025-01-0", DigitChars[v]>>]

FetchedItems == {NewsItem(n, v) : n \in 1..NumIds, v \in 1..NumVersions}

SeqsUpTo(S, n) == UNION {[1..k -> S] : k \in 0..n}

\* data.items of one fetch: any sequence, ids may repeat.
Batches == SeqsUpTo(FetchedItems, MaxBatch)

\* { ...item, isNew: b }
WithIsNew(item, b) ==
    [k \in (DOMAIN item) \cup {"isNew"} |-> IF k = "isNew" THEN b ELSE item[k]]

IdsOf(items) == {items[i].id : i \in DOMAIN items}

DistinctIds(items) ==
    \A i, j \in DOMAIN items : items[i].id = items[j].id => i = j

(***************************************************************************)
(* Map, in insertion order: a sequence of <<key, value>> entries.          *)
(***************************************************************************)
MapHas(m, k) == \E i \in DOMAIN m : m[i][1] = k

MapSet(m, k, v) ==
    IF MapHas(m, k)
    THEN [i \in DOMAIN m |-> IF m[i][1] = k THEN <<k, v>> ELSE m[i]]
    ELSE Append(m, <<k, v>>)

MapValues(m) == [i \in DOMAIN m |-> m[i][2]]

(***************************************************************************)
(* The merge of loadNews (the updater handed to setNews).                  *)
(***************************************************************************)
RECURSIVE SetAllKeep(_, _)
\* variant: the history is copied into the map with its flags as they are
SetAllKeep(m, prev) ==
    IF prev = <<>> THEN m
    ELSE SetAllKeep(MapSet(m, Head(prev).id, Head(prev)), Tail(prev))

RECURSIVE SetAllOld(_, _)
\* prev.forEach(item => newsMap.set(item.id, { ...item, isNew: false }))
SetAllOld(m, prev) ==
    IF prev = <<>> THEN m
    ELSE SetAllOld(MapSet(m, Head(prev).id, WithIsNew(Head(prev), FALSE)), Tail(prev))

RECURSIVE AddOverwrite(_, _)
\* variant: every incoming item is set, whether or not its id is present
AddOverwrite(m, items) ==
    IF items = <<>> THEN m
    ELSE AddOverwrite(MapSet(m, Head(items).id, WithIsNew(Head(items), TRUE)),
                      Tail(items))

RECURSIVE AddMissing(_, _)
\* data.items.forEach(item => { if (!newsMap.has(item.id)) newsMap.set(...isNew: true) })
AddMissing(m, items) ==
    IF items = <<>> THEN m
    ELSE AddMissing(IF MapHas(m, Head(items).id)
                    THEN m
                    ELSE MapSet(m, Head(items).id, WithIsNew(Head(items), TRUE)),
                    Tail(items))

\* variant: the incoming items are appended to the history, no map
MergeAppend(prev, items) ==
    [i \in DOMAIN prev |-> WithIsNew(prev[i], FALSE)]
        \o [i \in DOMAIN items |-> WithIsNew(items[i], TRUE)]

\* variant: the feed is replaced by the incoming items
MergeReplace(prev, items) == MapValues(AddMissing(<<>>, items))

Merge(prev, items) == MapValues(AddMissing(SetAllOld(<<>>, prev), items))

(***************************************************************************)
(* JSON.stringify / JSON.parse of the history, and the storage slot        *)
(* 'vibe-news-history'.  A serialised object is the sequence of its        *)
(* <<key, value>> members; a member whose value is undefined is left out.  *)
(***************************************************************************)
\* variant: only the NewsItem fields are serialised
ObjectMembersNoFlag(o) ==
    LET present == SelectSeq(ItemKeys, LAMBDA k : k \in DOMAIN o /\ k # "isNew")
    IN  [i \in DOMAIN present |-> <<present[i], o[present[i]]>>]

ObjectMembers(o) ==
    LET present == SelectSeq(ItemKeys, LAMBDA k : k \in DOMAIN o)
    IN  [i \in DOMAIN present |-> <<present[i], o[present[i]]>>]

MembersObject(ms) ==
    [k \in {ms[i][1] : i \in DOMAIN ms} |->
        ms[CHOOSE i \in DOMAIN ms : ms[i][1] = k][2]]

JSONStringify(arr) == [i \in DOMAIN arr |-> ObjectMembers(arr[i])]

JSONParse(text) == [i \in DOMAIN text |-> MembersObject(text[i])]

Absent == [kind |-> "absent"]
Corrupt == [kind |-> "corrupt"]
Stored(text) == [kind |-> "json", text |-> text]

\* localStorage.setItem('vibe-news-history', JSON.stringify(combined))
Persist(combined) == Stored(JSONStringify(combined))

\* const cached = localStorage.getItem(...); cached ? JSON.parse(cached) : []
LoadHistory(slot) == IF slot.kind = "json" THEN JSONParse(slot.text) ELSE <<>>

(***************************************************************************)
(* The feed filter of App (filteredNews, before the recency window and the *)
(* sort, neither of which changes whether the result is empty when         *)
(* timeFilter is 'all').                                                   *)
(***************************************************************************)
CatAll == <<"A","l","l">>
CatOfficial == <<"O","f","f","i","c","i","a","l">>
CatSocial == <<"S","o","c","i","a","l">>
CatTutorials == <<"T","u","t","o","r","i","a","l","s">>
CatNews == <<"N","e","w","s">>
CatFavorites == <<"F","a","v","o","r","i","t","e","s">>

\* const sources: Category[] of the sidebar
SidebarCategories ==
    {CatAll, CatOfficial, CatSocial, CatTutorials, CatNews, CatFavorites}

\* the sidebar buttons the state machine presses
PressedCategories == {CatAll, CatNews, CatFavorites}

AllTools == <<"All Tools">>
AllPlatforms == <<"All Platforms">>
EmptyString == <<>>

SeqIncludes(arr, x) == \E i \in DOMAIN arr : arr[i] = x

MatchesFilters(item, favs, category, tool, platform, query) ==
    LET isFav == SeqIncludes(favs, item.id)
        matchesCategory ==
            \/ category = CatAll
            \/ (category = CatFavorites /\ isFav)
            \/ Includes(ToLowerCase(item.category), ToLowerCase(category))
        matchesTool == tool = AllTools \/ item.tool = tool
        matchesPlatform == platform = AllPlatforms \/ item.platform = platform
        matchesSearch ==
            \/ Includes(ToLowerCase(item.title), ToLowerCase(query))
            \/ Includes(ToLowerCase(item.snippet), ToLowerCase(query))
    IN  matchesCategory /\ matchesTool /\ matchesPlatform /\ matchesSearch

FilterNews(items, favs, category, tool, platform, query) ==
    SelectSeq(items,
              LAMBDA item : MatchesFilters(item, favs, category, tool, platform, query))

(***************************************************************************)
(* State.                                                                  *)
(***************************************************************************)
VARIABLES
    app,              \* "running", or "crashed" when the first render threw
    vibeNewsHistory,  \* localStorage slot 'vibe-news-history'
    vibeFavs,         \* localStorage slot 'vibe-favs'
    news,             \* useState news: the in-memory history
    favorites,        \* useState favorites: array of ids
    loading,          \* useState loading
    isRefreshing,     \* useState isRefreshing: the busy flag
    activeCategory,   \* useState activeCategory
    pc,               \* position of each loadNews call
    lastData,         \* how the latest finished fetch settled, and with which items
    \* one call of withRetry
    rpc,              \* "off", "pending" (fn in flight), "delay", "resolved", "rejected"
    maxRetries,       \* the argument `retries` of the outermost call
    initialDelay,     \* the argument `delay` of the outermost call
    retries,          \* `retries` of the current activation
    delay,            \* `delay` of the current activation
    calls,            \* invocations of fn so far
    waited,           \* the delays slept so far, in order
    lastError,        \* what the latest failed attempt threw
    rejection,        \* what withRetry rejected with
    \* the merge applied to a chosen history and batch
    mpc,              \* "off", "start", "once", "twice"
    mPrev,            \* the history H
    mItems,           \* the batch A
    mOnce,            \* merge(H, A)
    mTwice,           \* merge(merge(H, A), A)
    \* one call of sanitizeUrl
    spc,              \* "off", "call", "done"
    rawUrl,           \* the argument
    cleanUrl,         \* the value returned
    \* one call of parseGroundedNews
    ppc,              \* "off", "call", "done"
    modelText,        \* the argument text: what the model answered
    groundingChunks,  \* the citations of the response
    now,              \* new Date().toISOString() during the call
    rawItems,         \* the records handed to verifyLinks
    verified,         \* the records returned
    \* one call of generateIdFromUrl
    ipc,              \* "off", "call", "done"
    key,              \* the argument
    derivedId,        \* the value returned
    \* one evaluation of the filteredNews memo
    vpc,              \* "off", "call", "done"
    memoNews,         \* news
    memoFavorites,    \* favorites
    memoCategory,     \* activeCategory
    memoTimeFilter,   \* timeFilter
    filteredNews      \* the value computed

appVars == <<app, vibeNewsHistory, vibeFavs, news, favorites, loading,
             isRefreshing, activeCategory, pc, lastData>>

retryVars == <<rpc, maxRetries, initialDelay, retries, delay, calls, waited, lastError, rejection>>

mergeVars == <<mpc, mPrev, mItems, mOnce, mTwice>>

sanitizeVars == <<spc, rawUrl, cleanUrl>>

parseVars == <<ppc, modelText, groundingChunks, now, rawItems, verified>>

idVars == <<ipc, key, derivedId>>

viewVars == <<vpc, memoNews, memoFavorites, memoCategory, memoTimeFilter, filteredNews>>

pipeVars == <<sanitizeVars, parseVars, idVars, viewVars>>

vars == <<appVars, retryVars, mergeVars, pipeVars>>

Cycles == 1..MaxCycles

\* lastData: a digest of the latest settled fetch and of the items it delivered
NoData == [kind |-> "none"]
FetchFailed == [kind |-> "error"]
InFlight == {c \in Cycles : pc[c] = "awaiting"}

\* where the settling fetch stands among overlapping cycles: "first" when
\* another cycle is still awaiting its fetch, "second" when it is the last of
\* cycles that were in flight together, "none" when it ran alone
OverlapOfSettle ==
    IF Cardinality(InFlight) > 1 THEN "first"
    ELSE IF lastData.kind \in {"merged", "empty"} /\ lastData.overlap = "first"
         THEN "second"
         ELSE "none"

\* the ids the overlapping cycles have seen so far: the history before the
\* first of them settled, and their batches
OwedAfter(prev, items) ==
    IF OverlapOfSettle = "first" THEN IdsOf(prev) \cup IdsOf(items)
    ELSE IF OverlapOfSettle = "second" THEN lastData.owed \cup IdsOf(items)
    ELSE {}

FetchedData(prev, items) ==
    [kind       |-> IF Len(items) > 0 THEN "merged" ELSE "empty",
     repeats    |-> ~DistinctIds(items),
     redelivers |-> IdsOf(items) \cap IdsOf(prev) # {},
     overlap    |-> OverlapOfSettle,
     owed       |-> OwedAfter(prev, items)]

\* JSON of the favourites: an array of strings
StringifyIds(ids) == [i \in DOMAIN ids |-> <<"string", ids[i]>>]
ParseIds(text) == [i \in DOMAIN text |-> text[i][2]]
LoadFavs(slot) == IF slot.kind = "json" THEN ParseIds(slot.text) ELSE <<>>

\* what the grid shows: filteredNews with tool, platform and search at rest
Displayed == FilterNews(news, favorites, activeCategory, AllTools, AllPlatforms, EmptyString)

(***************************************************************************)
(* Mounting App: the useState initialisers and the mount effect            *)
(* `if (news.length === 0) loadNews()`.                                    *)
(***************************************************************************)
Mounted(historySlot, favsSlot) ==
    IF historySlot.kind = "corrupt"
    THEN [app |-> "crashed", news |-> <<>>, favorites |-> <<>>,
          loading |-> FALSE, isRefreshing |-> FALSE,
          pc |-> [c \in Cycles |-> "idle"]]
    ELSE LET h == LoadHistory(historySlot)
         IN  [app |-> "running", news |-> h, favorites |-> LoadFavs(favsSlot),
              loading |-> (Len(h) = 0),
              isRefreshing |-> (Len(h) = 0),
              pc |-> [c \in Cycles |-> IF c = 1 /\ Len(h) = 0 THEN "awaiting" ELSE "idle"]]

AppInit ==
    /\ vibeNewsHistory \in {Absent, Corrupt}
    /\ vibeFavs = Absent
    /\ LET m == Mounted(vibeNewsHistory, vibeFavs)
       IN  /\ app = m.app
           /\ news = m.news
           /\ favorites = m.favorites
           /\ loading = m.loading
           /\ isRefreshing = m.isRefreshing
           /\ pc = m.pc
    /\ activeCategory = CatAll
    /\ lastData = NoData

\* The browser reloads the page: calls in flight are gone, storage stays.
Reload ==
    /\ LET m == Mounted(vibeNewsHistory, vibeFavs)
       IN  /\ app' = m.app
           /\ news' = m.news
           /\ favorites' = m.favorites
           /\ loading' = m.loading
           /\ isRefreshing' = m.isRefreshing
           /\ pc' = m.pc
    /\ activeCategory' = CatAll
    /\ lastData' = NoData
    /\ UNCHANGED <<vibeNewsHistory, vibeFavs,
                   retryVars, mergeVars, pipeVars>>

(***************************************************************************)
(* loadNews.                                                               *)
(***************************************************************************)
\* the synchronous head of loadNews, up to `await fetchAIDevNews(...)`
LoadNewsStart ==
    /\ \E c \in Cycles : pc[c] = "idle"
    /\ LET c == CHOOSE x \in Cycles : pc[x] = "idle" /\ \A y \in Cycles : pc[y] = "idle" => x <= y
       IN  pc' = [pc EXCEPT ![c] = "awaiting"]
    /\ isRefreshing' = TRUE
    /\ UNCHANGED <<app, vibeNewsHistory, vibeFavs, news, favorites, loading,
                   activeCategory, lastData,
                   retryVars, mergeVars, pipeVars>>

\* the header button "Sync ...", disabled={isRefreshing}
ClickSync ==
    /\ app = "running"
    /\ ~isRefreshing
    /\ LoadNewsStart

\* the button "Initiate Sync" of the empty grid
ClickInitiateSync ==
    /\ app = "running"
    /\ ~loading
    /\ Len(Displayed) = 0
    /\ LoadNewsStart

\* the finally block: clearInterval, then setTimeout(..., 600)
Finally(c) == pc' = [pc EXCEPT ![c] = "timer"]

\* variant: the batch of the settling cycle replaces the history
FetchResolveOverwrites(c, items) ==
    /\ app = "running"
    /\ pc[c] = "awaiting"
    /\ IF Len(items) > 0
       THEN LET combined == Merge(<<>>, items)
            IN  /\ news' = combined
                /\ vibeNewsHistory' = Persist(combined)
       ELSE UNCHANGED <<news, vibeNewsHistory>>
    /\ loading' = FALSE
    /\ Finally(c)
    /\ lastData' = FetchedData(news, items)
    /\ UNCHANGED <<app, vibeFavs, favorites, isRefreshing, activeCategory,
                   retryVars, mergeVars, pipeVars>>

\* the fetch resolves: the try block after the await, then finally
FetchResolve(c, items) ==
    /\ app = "running"
    /\ pc[c] = "awaiting"
    /\ IF Len(items) > 0
       THEN LET combined == Merge(news, items)
            IN  /\ news' = combined
                /\ vibeNewsHistory' = Persist(combined)
       ELSE UNCHANGED <<news, vibeNewsHistory>>
    /\ loading' = FALSE
    /\ Finally(c)
    /\ lastData' = FetchedData(news, items)
    /\ UNCHANGED <<app, vibeFavs, favorites, isRefreshing, activeCategory,
                   retryVars, mergeVars, pipeVars>>

\* variant: a failed fetch drops the feed
FetchRejectClears(c) ==
    /\ app = "running"
    /\ pc[c] = "awaiting"
    /\ news' = <<>>
    /\ loading' = FALSE
    /\ Finally(c)
    /\ lastData' = FetchFailed
    /\ UNCHANGED <<app, vibeNewsHistory, vibeFavs, favorites, isRefreshing,
                   activeCategory,
                   retryVars, mergeVars, pipeVars>>

\* the fetch rejects: the catch block, then finally
FetchReject(c) ==
    /\ app = "running"
    /\ pc[c] = "awaiting"
    /\ loading' = FALSE
    /\ Finally(c)
    /\ lastData' = FetchFailed
    /\ UNCHANGED <<app, vibeNewsHistory, vibeFavs, news, favorites, isRefreshing,
                   activeCategory,
                   retryVars, mergeVars, pipeVars>>

\* variant: the timer of the finally block leaves isRefreshing as it is
TimerFireSilent(c) ==
    /\ app = "running"
    /\ pc[c] = "timer"
    /\ pc' = [pc EXCEPT ![c] = "idle"]
    /\ UNCHANGED <<app, vibeNewsHistory, vibeFavs, news, favorites, loading,
                   isRefreshing, activeCategory, lastData,
                   retryVars, mergeVars, pipeVars>>

\* the 600 ms timer of the finally block fires
TimerFire(c) ==
    /\ app = "running"
    /\ pc[c] = "timer"
    /\ isRefreshing' = FALSE
    /\ pc' = [pc EXCEPT ![c] = "idle"]
    /\ UNCHANGED <<app, vibeNewsHistory, vibeFavs, news, favorites, loading,
                   activeCategory, lastData,
                   retryVars, mergeVars, pipeVars>>

(***************************************************************************)
(* Other handlers of App.                                                  *)
(***************************************************************************)
\* toggleFavorite of a card of the grid
ToggleFavorite(id) ==
    /\ app = "running"
    /\ ~loading
    /\ id \in IdsOf(Displayed)
    /\ LET next == IF SeqIncludes(favorites, id)
                   THEN SelectSeq(favorites, LAMBDA f : f # id)
                   ELSE Append(favorites, id)
       IN  /\ favorites' = next
           /\ vibeFavs' = Stored(StringifyIds(next))
    /\ UNCHANGED <<app, vibeNewsHistory, news, loading, isRefreshing,
                   activeCategory, pc, lastData,
                   retryVars, mergeVars, pipeVars>>

\* a sidebar button: setActiveCategory(item)
SetActiveCategory(cat) ==
    /\ app = "running"
    /\ cat # activeCategory
    /\ activeCategory' = cat
    /\ UNCHANGED <<app, vibeNewsHistory, vibeFavs, news, favorites, loading,
                   isRefreshing, pc, lastData,
                   retryVars, mergeVars, pipeVars>>

AppNext ==
    \/ ClickSync
    \/ ClickInitiateSync
    \/ \E c \in Cycles, items \in Batches : FetchResolve(c, items)
    \/ \E c \in Cycles : FetchReject(c)
    \/ \E c \in Cycles : TimerFire(c)
    \/ \E id \in Ids : ToggleFavorite(id)
    \/ \E cat \in PressedCategories : SetActiveCategory(cat)
    \/ Reload

(***************************************************************************)
(* withRetry(fn, retries = 3, delay = 1500).                               *)
(* JavaScript values an error's fields can hold.                           *)
(***************************************************************************)
Undef == [type |-> "undefined"]
Num(n) == [type |-> "number", value |-> n]
Str(chars) == [type |-> "string", chars |-> chars]

Overloaded == <<"o","v","e","r","l","o","a","d","e","d">>

NoError == [status |-> Undef, message |-> Str(<<"(none)">>)]

\* what `error?.message?.includes(...)` throws when message has no includes
IncludesTypeError ==
    [status |-> Undef, message |-> Str(<<"includes is not a function">>)]

\* the values fn throws
ThrownErrors ==
    {[status |-> Num(StatusUnavailable), message |-> Str(<<"u","n","a","v","a","i","l","a","b","l","e">>)],
     [status |-> Num(StatusRateLimited), message |-> Str(<<"q","u","o","t","a">>)],
     [status |-> Num(StatusRateLimited), message |-> Num(0)],
     [status |-> Num(500), message |-> Str(<<"i","n","t","e","r","n","a","l">>)],
     [status |-> Str(<<"5","0","3">>), message |-> Str(<<"t","e","x","t">>)],
     [status |-> Undef, message |-> Str(<<"i","s"," ">> \o Overloaded \o <<".">>)],
     [status |-> Undef, message |-> Str(<<"O","v","e","r","l","o","a","d","e","d">>)],
     [status |-> Undef, message |-> Undef],
     [status |-> Undef, message |-> Num(0)]}

\* error?.status === 503 || error?.status === 429 || error?.message?.includes('overloaded')
\* "retryable", "fatal", or "throws" when evaluating the expression itself throws
Classify(error) ==
    IF error.status = Num(StatusUnavailable) \/ error.status = Num(StatusRateLimited)
    THEN "retryable"
    ELSE IF error.message.type = "undefined"
    THEN "fatal"
    ELSE IF error.message.type = "string"
    THEN IF Includes(error.message.chars, Overloaded) THEN "retryable" ELSE "fatal"
    ELSE "throws"

\* variant: rate limiting (429) is not recognised
IsRetryableNo429(error) ==
    /\ error.status # Num(StatusRateLimited)
    /\ Classify(error) = "retryable"

IsRetryable(error) == Classify(error) = "retryable"

\* the delays withRetry is called with: the default and a shorter one
InitialDelays == {DefaultDelay, 1000}

\* variant: the remaining budget is not consulted
ShouldRetryAlways(r, error) == IsRetryable(error)

\* if (retries > 0 && isRetryable)
ShouldRetry(r, error) == r > 0 /\ IsRetryable(error)

\* variant: the delay grows by the initial delay, not by doubling
NextDelayLinear(d) == d + DefaultDelay

\* delay * 2 of the recursive call
NextDelay(d) == d * 2

RetryInit ==
    /\ rpc = "start"
    /\ maxRetries \in (0..MaxRetriesBound) \cup {DefaultRetries}
    /\ initialDelay \in InitialDelays
    /\ retries = maxRetries
    /\ delay = initialDelay
    /\ calls = 0
    /\ waited = <<>>
    /\ lastError = NoError
    /\ rejection = NoError

RetryOff ==
    /\ rpc = "off"
    /\ maxRetries = 0
    /\ initialDelay = 0
    /\ retries = 0
    /\ delay = 0
    /\ calls = 0
    /\ waited = <<>>
    /\ lastError = NoError
    /\ rejection = NoError

\* the caller calls withRetry, which invokes fn at once
WithRetryCall ==
    /\ rpc = "start"
    /\ calls' = calls + 1
    /\ rpc' = "pending"
    /\ UNCHANGED <<maxRetries, initialDelay, retries, delay, waited, lastError, rejection,
                   appVars, mergeVars, pipeVars>>

\* return await fn()
FnResolves ==
    /\ rpc = "pending"
    /\ rpc' = "resolved"
    /\ UNCHANGED <<maxRetries, initialDelay, retries, delay, calls, waited, lastError, rejection,
                   appVars, mergeVars, pipeVars>>

\* the catch block
FnThrows(error) ==
    /\ rpc = "pending"
    /\ lastError' = error
    /\ IF Classify(error) = "throws"
       THEN rpc' = "rejected" /\ rejection' = IncludesTypeError
       ELSE IF ShouldRetry(retries, error)
       THEN rpc' = "delay" /\ UNCHANGED rejection
       ELSE rpc' = "rejected" /\ rejection' = error
    /\ UNCHANGED <<maxRetries, initialDelay, retries, delay, calls, waited, appVars, mergeVars, pipeVars>>

\* setTimeout(resolve, delay) fires; withRetry(fn, retries - 1, delay * 2) invokes fn
DelayElapses ==
    /\ rpc = "delay"
    /\ waited' = Append(waited, delay)
    /\ retries' = retries - 1
    /\ delay' = NextDelay(delay)
    /\ calls' = calls + 1
    /\ rpc' = "pending"
    /\ UNCHANGED <<maxRetries, initialDelay, lastError, rejection, appVars, mergeVars, pipeVars>>

(***************************************************************************)
(* The merge on a chosen history and batch, applied once and again.        *)
(***************************************************************************)
HistoryItems == {WithIsNew(item, b) : item \in FetchedItems, b \in BOOLEAN}

\* the histories the program keeps: ids pairwise distinct
Histories == {h \in SeqsUpTo(HistoryItems, NumIds) : DistinctIds(h)}

MergeInit ==
    /\ mpc = "start"
    /\ mPrev \in Histories
    /\ mItems \in Batches
    /\ mOnce = <<>>
    /\ mTwice = <<>>

MergeOff ==
    /\ mpc = "off"
    /\ mPrev = <<>>
    /\ mItems = <<>>
    /\ mOnce = <<>>
    /\ mTwice = <<>>

MergeFirst ==
    /\ mpc = "start"
    /\ mOnce' = Merge(mPrev, mItems)
    /\ mpc' = "once"
    /\ UNCHANGED <<mPrev, mItems, mTwice, appVars, retryVars, pipeVars>>

MergeAgain ==
    /\ mpc = "once"
    /\ mTwice' = Merge(mOnce, mItems)
    /\ mpc' = "twice"
    /\ UNCHANGED <<mPrev, mItems, mOnce, appVars, retryVars, pipeVars>>

(***************************************************************************)
(* One call of sanitizeUrl on a chosen raw value.                          *)
(***************************************************************************)
\* what raw values are made of
UrlPieces ==
    {<<"h","t","t","p",":","/","/">>,
     <<"h","t","t","p","s",":","/","/">>,
     <<"x",".","c","o","/">>,
     <<"a",".","i","o">>,
     <<".",".",".">>,
     <<".">>,
     <<",">>,
     <<" ">>,
     <<"e","x","a","m","p","l","e",".","c","o","m">>,
     <<"y","o","u","r","-","u","r","l","-","h","e","r","e">>,
     <<"[","t","]","(">>,
     <<")">>,
     <<"/","r","e","l","e","a","s","e","s","/","o","f","/","a","/","l","o","n","g","/","p","a","t","h">>,
     <<"l","o","c","a","l","h","o","s","t">>}

RECURSIVE Concat(_)
\* the strings of ss joined end to end
Concat(ss) == IF ss = <<>> THEN <<>> ELSE Head(ss) \o Concat(Tail(ss))

\* the raw values: up to MaxPieces pieces in a row
RawUrls == {Concat(ps) : ps \in SeqsUpTo(UrlPieces, MaxPieces)}

SanitizeInit ==
    /\ spc = "call"
    /\ rawUrl \in RawUrls
    /\ cleanUrl = <<>>

SanitizeOff ==
    /\ spc = "off"
    /\ rawUrl = <<>>
    /\ cleanUrl = <<>>

SanitizeCall ==
    /\ spc = "call"
    /\ cleanUrl' = sanitizeUrl(rawUrl)
    /\ spc' = "done"
    /\ UNCHANGED <<rawUrl, parseVars, idVars, viewVars, appVars, retryVars, mergeVars>>

(***************************************************************************)
(* verifyLinks.  A grounding chunk is [web |-> Undef] or                   *)
(* [web |-> [type |-> "object", uri |-> u, title |-> t]], u and t each     *)
(* Undef or Str(chars).                                                    *)
(***************************************************************************)
\* a string value that is neither undefined nor empty
Truthy(v) == v.type = "string" /\ v.chars # <<>>

\* v || ""
OrEmpty(v) == IF Truthy(v) THEN v.chars ELSE <<>>

\* c.web && c.web.uri
HasUri(c) == c.web.type = "object" /\ Truthy(c.web.uri)

\* groundingChunks.filter(...).map(c => ({ uri, title: (c.web.title || "").toLowerCase() }))
VerifiedChunks(chunks) ==
    LET kept == SelectSeq(chunks, HasUri)
    IN  [i \in DOMAIN kept |->
            [uri |-> kept[i].web.uri.chars, title |-> ToLowerCase(OrEmpty(kept[i].web.title))]]

\* variant: no citation ever counts as an exact match
ExactMatchNever(verifiedChunks, item) == FALSE

\* verifiedChunks.find(c => c.uri === item.url) found a chunk
ExactMatch(verifiedChunks, item) ==
    \E i \in DOMAIN verifiedChunks : verifiedChunks[i].uri = item.url

\* chunkWords.filter(w => itemTitleLower.includes(w)).length, chunkWords the
\* words of the chunk's title longer than 3 characters
Overlap(chunk, itemTitleLower) ==
    LET IsLong(w) == Len(w) > 3
        InTitle(w) == Includes(itemTitleLower, w)
    IN  Len(SelectSeq(SelectSeq(SplitBlanks(chunk.title), IsLong), InTitle))

RECURSIVE BestFromLast(_, _, _, _, _)
\* variant: a later chunk with the same overlap replaces the best one
BestFromLast(verifiedChunks, i, itemTitleLower, bestMatch, maxOverlap) ==
    IF i > Len(verifiedChunks) THEN [bestMatch |-> bestMatch, maxOverlap |-> maxOverlap]
    ELSE LET overlap == Overlap(verifiedChunks[i], itemTitleLower)
         IN  IF overlap >= maxOverlap
             THEN BestFromLast(verifiedChunks, i + 1, itemTitleLower, verifiedChunks[i], overlap)
             ELSE BestFromLast(verifiedChunks, i + 1, itemTitleLower, bestMatch, maxOverlap)

RECURSIVE BestFrom(_, _, _, _, _)
\* the loop over verifiedChunks from index i: [bestMatch, maxOverlap] at its end
BestFrom(verifiedChunks, i, itemTitleLower, bestMatch, maxOverlap) ==
    IF i > Len(verifiedChunks) THEN [bestMatch |-> bestMatch, maxOverlap |-> maxOverlap]
    ELSE LET overlap == Overlap(verifiedChunks[i], itemTitleLower)
         IN  IF overlap > maxOverlap
             THEN BestFrom(verifiedChunks, i + 1, itemTitleLower, verifiedChunks[i], overlap)
             ELSE BestFrom(verifiedChunks, i + 1, itemTitleLower, bestMatch, maxOverlap)

\* item.url.includes('...') || item.url.length < 15
IsSuspect(url) == Includes(url, Ellipsis) \/ Len(url) < 15

\* bestMatch.title.length > 30 ? substring(0, 30) + '...' : bestMatch.title || item.source
SubstitutedSource(bestMatch, item) ==
    IF Len(bestMatch.title) > 30 THEN Substring(bestMatch.title, 0, 30) \o Ellipsis
    ELSE IF bestMatch.title # <<>> THEN bestMatch.title
    ELSE item.source

\* the callback of items.map
VerifyItem(item, verifiedChunks) ==
    IF ExactMatch(verifiedChunks, item) THEN item
    ELSE LET found == BestFrom(verifiedChunks, 1, ToLowerCase(item.title),
                               verifiedChunks[1], 0)
         IN  IF found.maxOverlap > 0 \/ IsSuspect(item.url)
             THEN [item EXCEPT !.url = found.bestMatch.uri,
                               !.id = generateIdFromUrl(found.bestMatch.uri),
                               !.source = SubstitutedSource(found.bestMatch, item)]
             ELSE item

verifyLinks(rawList, chunks) ==
    LET verifiedChunks == VerifiedChunks(chunks)
    IN  IF Len(verifiedChunks) = 0 THEN rawList
        ELSE [i \in DOMAIN rawList |-> VerifyItem(rawList[i], verifiedChunks)]

(***************************************************************************)
(* parseGroundedNews.                                                      *)
(***************************************************************************)
DefaultSnippet == <<"C","o","m","m","u","n","i","t","y"," ","u","p","d","a","t","e"," ","c","a","p","t","u","r","e","d",".">>
DefaultSource == <<"I","n","t","e","l"," ","F","e","e","d">>
DefaultPlatform == <<"N","e","w","s">>
DefaultCategory == <<"c","o","m","m","u","n","i","t","y">>
DefaultTool == <<"G","e","n","e","r","a","l"," ","A","I">>

\* parts[i] || default, i counted from 0
PartOr(parts, i, default) ==
    IF i < Len(parts) /\ parts[i + 1] # <<>> THEN parts[i + 1] ELSE default

\* title.replace(/^[#\s*\-•]+/, '')
RECURSIVE StripLeadingMarkup(_)
StripLeadingMarkup(title) ==
    IF title # <<>> /\ title[1] \in {"#", "*", "-", Bullet} \cup WhiteSpace
    THEN StripLeadingMarkup(Tail(title))
    ELSE title

\* variant: four fields are enough
EnoughPartsFour(parts) == Len(parts) >= 4

\* parts.length >= 5
EnoughParts(parts) == Len(parts) >= 5

\* the body of the loop for one line: the records it pushes, none or one
ParseLine(line, nowIso) ==
    IF ~Includes(line, ItemMarker) THEN <<>>
    ELSE LET pieces  == Split(line, ItemMarker)
             segment == pieces[2]
             fields  == Split(segment, FieldSeparator)
             parts   == [i \in DOMAIN fields |-> Trim(fields[i])]
         IN  IF ~EnoughParts(parts) THEN <<>>
             ELSE LET title == parts[1]
                      url   == sanitizeUrl(PartOr(parts, 4, <<>>))
                  IN  IF title = <<>> THEN <<>>
                      ELSE <<[id          |-> generateIdFromUrl(IF url # <<>> THEN url
                                                                ELSE title),
                              title       |-> StripLeadingMarkup(title),
                              snippet     |-> PartOr(parts, 1, DefaultSnippet),
                              source      |-> PartOr(parts, 2, DefaultSource),
                              platform    |-> PartOr(parts, 3, DefaultPlatform),
                              url         |-> url,
                              category    |-> PartOr([i \in DOMAIN parts |->
                                                         ToLowerCase(parts[i])],
                                                     5, DefaultCategory),
                              tool        |-> PartOr(parts, 6, DefaultTool),
                              publishedAt |-> PartOr(parts, 7, nowIso)]>>

RECURSIVE ParseLines(_, _)
\* the loop over the lines: rawItems at its end
ParseLines(lines, nowIso) ==
    IF lines = <<>> THEN <<>>
    ELSE ParseLine(Head(lines), nowIso) \o ParseLines(Tail(lines), nowIso)

\* rawItems of parseGroundedNews
RawItemsOf(responseText, nowIso) == ParseLines(Split(responseText, <<"\n">>), nowIso)

parseGroundedNews(responseText, chunks, nowIso) ==
    verifyLinks(RawItemsOf(responseText, nowIso), chunks)

(***************************************************************************)
(* One call of parseGroundedNews.                                          *)
(***************************************************************************)
\* what Number gives for a text that is no number
NaN == [type |-> "NaN"]

DecimalDigits == <<"0","1","2","3","4","5","6","7","8","9">>

\* the value of a run of decimal digits, NaN when a character is no digit
RECURSIVE DecimalValue(_)
DecimalValue(s) ==
    IF s = <<>> THEN Num(0)
    ELSE LET last  == s[Len(s)]
             front == DecimalValue(SubSeq(s, 1, Len(s) - 1))
         IN  IF front = NaN \/ ~(\E d \in DOMAIN DecimalDigits : DecimalDigits[d] = last)
             THEN NaN
             ELSE Num(front.value * 10
                      + (CHOOSE d \in DOMAIN DecimalDigits : DecimalDigits[d] = last) - 1)

\* new Date(s).getTime() for the ISO forms YYYY-MM-DD and YYYY-MM-DDT..., in
\* whole days since 1970-01-01 where the code has milliseconds; NaN for any
\* other text
GetTime(s) ==
    LET year  == DecimalValue(Substring(s, 0, 4))
        month == DecimalValue(Substring(s, 5, 7))
        day   == DecimalValue(Substring(s, 8, 10))
    IN  IF /\ Len(s) >= 10
           /\ s[5] = "-" /\ s[8] = "-"
           /\ (Len(s) = 10 \/ s[11] = "T")
           /\ year # NaN /\ month # NaN /\ day # NaN
           /\ month.value \in 1..12 /\ day.value \in 1..31
        THEN LET a  == (14 - month.value) \div 12
                 yy == year.value + 4800 - a
                 mm == month.value + 12 * a - 3
             IN  Num(day.value + (153 * mm + 2) \div 5 + 365 * yy + yy \div 4
                     - yy \div 100 + yy \div 400 - 32045 - 2440588)
        ELSE NaN

\* the inputs of the calls that are examined
FeedTitles ==
    {<<"C","u","r","s","o","r"," ","s","h","i","p","s"," ","a","g","e","n","t","s">>,
     <<"#","#"," ","C","l","a","u","d","e"," ","u","p","d","a","t","e">>,
     <<"#","#">>}

FeedUrls ==
    {<<"h","t","t","p","s",":","/","/","a",".","i","o","/","c","u","r","s","o","r","-","a","g","e","n","t","s">>,
     <<"h","t","t","p",":","/","/","x",".","c","o","/",".",".",".">>,
     <<"h","t","t","p","s",":","/","/","g","i","t","h","u","b",".","c","o","m","/","o","/",".",".",".","/","r","e","l","e","a","s","e","s">>,
     <<"b",".","d","e","v","/","p","o","s","t">>,
     <<"l","o","c","a","l","h","o","s","t","/","r","e","l","e","a","s","e","s","/","l","a","t","e","s","t">>,
     <<>>}

PastDate == <<"2","0","2","5","-","0","1","-","0","1">>
FutureDate == <<"2","9","9","9","-","0","1","-","0","1">>
InvalidDate == <<"s","o","o","n">>

FeedDates == {PastDate, FutureDate, InvalidDate, <<>>}

\* the clock readings new Date().toISOString() can give during a call
Clocks == {<<"2","0","2","6","-","0","1","-","0","1","T","0","0",":","0","0",":","0","0",".","0","0","0","Z">>}

RECURSIVE JoinWith(_, _)
\* Array.prototype.join
JoinWith(ss, sep) ==
    IF ss = <<>> THEN <<>>
    ELSE IF Len(ss) = 1 THEN ss[1]
    ELSE ss[1] \o sep \o JoinWith(Tail(ss), sep)

\* a line as the prompt asks for it: [ITEM] field >>> field >>> ...
ItemLine(fields) == ItemMarker \o <<" ">> \o JoinWith(fields, <<" ">> \o FieldSeparator \o <<" ">>)

FullLine(title, url, date) ==
    ItemLine(<<title, <<"A","g","e","n","t"," ","m","o","d","e">>, <<"B","l","o","g">>, <<"X">>, url,
               <<"O","f","f","i","c","i","a","l">>, <<"C","u","r","s","o","r">>, date>>)

\* lines with eight fields, a line with five, and lines that are no item
FeedLines ==
    {FullLine(t, u, PastDate) : t \in FeedTitles, u \in FeedUrls}
    \cup {FullLine(<<"C","u","r","s","o","r"," ","s","h","i","p","s"," ","a","g","e","n","t","s">>, <<"h","t","t","p","s",":","/","/","a",".","i","o","/","c","u","r","s","o","r","-","a","g","e","n","t","s">>, d) : d \in FeedDates}
    \cup {ItemLine(<<<<"C","u","r","s","o","r"," ","s","h","i","p","s"," ","a","g","e","n","t","s">>, <<>>, <<>>, <<>>, <<"h","t","t","p","s",":","/","/","a",".","i","o","/","c","u","r","s","o","r","-","a","g","e","n","t","s">>>>),
          FullLine(<<>>, <<"h","t","t","p","s",":","/","/","a",".","i","o","/","c","u","r","s","o","r","-","a","g","e","n","t","s">>, PastDate),
          ItemLine(<<<<"C","u","r","s","o","r"," ","s","h","i","p","s"," ","a","g","e","n","t","s">>, <<"A","g","e","n","t"," ","m","o","d","e">>, <<"B","l","o","g">>, <<"X">> >>),
          ItemMarker,
          <<"H","e","r","e"," ","a","r","e"," ","t","h","e"," ","u","p","d","a","t","e","s",":">>,
          <<>>}

Texts == {JoinWith(ls, <<"\n">>) : ls \in SeqsUpTo(FeedLines, MaxLines)}

WebChunk(uri, title) == [web |-> [type |-> "object", uri |-> uri, title |-> title]]

Chunks ==
    {WebChunk(Str(<<"h","t","t","p","s",":","/","/","a",".","i","o","/","c","u","r","s","o","r","-","a","g","e","n","t","s">>), Str(<<"R","e","l","e","a","s","e"," ","n","o","t","e","s">>)),
     WebChunk(Str(<<"h","t","t","p","s",":","/","/","c",".","o","r","g","/","c","u","r","s","o","r">>), Str(<<"C","u","r","s","o","r"," ","S","h","i","p","s"," ","A","g","e","n","t","s"," ","T","o","d","a","y">>)),
     WebChunk(Str(<<"h","t","t","p","s",":","/","/","e",".","d","e","v","/","c","l","a","u","d","e">>), Str(<<"C","l","a","u","d","e"," ","u","p","d","a","t","e"," ","l","a","n","d","s"," ","f","o","r"," ","e","v","e","r","y"," ","d","e","v","e","l","o","p","e","r">>)),
     WebChunk(Str(<<"h","t","t","p","s",":","/","/","d",".","n","e","t","/","x">>), Undef),
     [web |-> Undef]}

ChunkLists == SeqsUpTo(Chunks, MaxChunks)

ParseInit ==
    /\ ppc = "call"
    /\ modelText \in Texts
    /\ groundingChunks \in ChunkLists
    /\ now \in Clocks
    /\ rawItems = <<>>
    /\ verified = <<>>

ParseOff ==
    /\ ppc = "off"
    /\ modelText = <<>>
    /\ groundingChunks = <<>>
    /\ now = <<>>
    /\ rawItems = <<>>
    /\ verified = <<>>

ParseCall ==
    /\ ppc = "call"
    /\ rawItems' = RawItemsOf(modelText, now)
    /\ verified' = verifyLinks(rawItems', groundingChunks)
    /\ ppc' = "done"
    /\ UNCHANGED <<modelText, groundingChunks, now, sanitizeVars, idVars, viewVars, appVars,
                   retryVars,
                   mergeVars>>

(***************************************************************************)
(* One call of generateIdFromUrl on a chosen key.                          *)
(***************************************************************************)
\* the keys: the raw urls, the titles, and a title that opens with a bullet
Keys == RawUrls \cup FeedTitles \cup {<<Bullet, " ">> \o <<"C","l","a","u","d","e"," ","u","p","d","a","t","e">>}

IdInit ==
    /\ ipc = "call"
    /\ key \in Keys
    /\ derivedId = <<>>

IdOff ==
    /\ ipc = "off"
    /\ key = <<>>
    /\ derivedId = <<>>

GenerateIdCall ==
    /\ ipc = "call"
    /\ derivedId' = generateIdFromUrl(key)
    /\ ipc' = "done"
    /\ UNCHANGED <<key, sanitizeVars, parseVars, viewVars, appVars, retryVars, mergeVars>>

(***************************************************************************)
(* The filteredNews memo of App: the filter, the recency window, the sort. *)
(***************************************************************************)
\* the recency test of one item; diffDays in whole days, so that
\* diffDays <= 1.2 reads diffDays <= 1 and diffDays <= 7.5 reads diffDays <= 7
WithinWindow(item, timeFilter, nowIso) ==
    LET time == GetTime(item.publishedAt)
        diffDays == GetTime(nowIso).value - time.value
    IN  CASE timeFilter = "day"     -> time # NaN /\ diffDays <= 1
          [] timeFilter = "week"    -> time # NaN /\ diffDays <= 7
          [] timeFilter = "month"   -> time # NaN /\ diffDays <= 31
          [] timeFilter = "6months" -> time # NaN /\ diffDays <= 183
          [] OTHER                  -> TRUE

\* if (timeFilter !== 'all') result = result.filter(...)
TimeWindow(result, timeFilter, nowIso) ==
    IF timeFilter = "all" THEN result
    ELSE SelectSeq(result, LAMBDA item : WithinWindow(item, timeFilter, nowIso))

\* the comparator handed to sort: a number, or NaN when a date is no date
CompareItems(a, b) ==
    IF a.isNew /\ ~b.isNew THEN Num(-1)
    ELSE IF ~a.isNew /\ b.isNew THEN Num(1)
    ELSE IF GetTime(a.publishedAt) = NaN \/ GetTime(b.publishedAt) = NaN THEN NaN
    ELSE Num(GetTime(b.publishedAt).value - GetTime(a.publishedAt).value)

\* the orders of the indices of an array
IndexOrders(arr) ==
    {p \in [DOMAIN arr -> DOMAIN arr] : \A i, j \in DOMAIN arr : p[i] = p[j] => i = j}

\* p lists arr in the comparator's order, equal elements in their old order
SortedBy(arr, p) ==
    \A i, j \in DOMAIN arr :
        i < j => LET order == CompareItems(arr[p[i]], arr[p[j]]).value
                 IN  order < 0 \/ (order = 0 /\ p[i] < p[j])

\* no element of the order p is directly followed by one that the comparator
\* puts before it
LocallySortedBy(arr, p) ==
    \A i \in 1..(Len(arr) - 1) :
        LET order == CompareItems(arr[p[i]], arr[p[i + 1]])
        IN  order = NaN \/ order.value <= 0

\* Array.prototype.sort(comparator): the stable order when the comparator
\* returns a number for every pair; when it returns NaN for some pair the
\* order is the engine's choice, here any order that is sorted from each
\* element to the next
SortResults(arr) ==
    LET consistent ==
            \A i, j \in DOMAIN arr : i # j => CompareItems(arr[i], arr[j]) # NaN
        orders == IF consistent THEN {p \in IndexOrders(arr) : SortedBy(arr, p)}
                  ELSE {p \in IndexOrders(arr) : LocallySortedBy(arr, p)}
    IN  {[i \in DOMAIN arr |-> arr[p[i]]] : p \in orders}

\* the values the memo can take
FilteredNewsResults(items, favs, category, timeFilter, nowIso) ==
    SortResults(TimeWindow(FilterNews(items, favs, category, AllTools, AllPlatforms,
                                      EmptyString),
                           timeFilter, nowIso))

RecentDate == <<"2","0","2","5","-","1","2","-","3","0">>

\* what the items of a history can look like: every category tag, and for
\* one tag every date and flag
ItemShapes ==
    {[category |-> CategoryTags[c], publishedAt |-> PastDate, isNew |-> FALSE] :
        c \in DOMAIN CategoryTags}
    \cup {[category |-> CategoryTags[1], publishedAt |-> d, isNew |-> b] :
             d \in {PastDate, RecentDate, InvalidDate}, b \in BOOLEAN}

\* the n-th item of a history, in a given shape
ShapedItem(n, shape) ==
    WithIsNew([NewsItem(n, 1) EXCEPT !.category = shape.category,
                                     !.publishedAt = shape.publishedAt],
              shape.isNew)

ViewHistories ==
    {[n \in DOMAIN shapes |-> ShapedItem(n, shapes[n])] :
        shapes \in SeqsUpTo(ItemShapes, MaxShown)}

ViewInit ==
    /\ vpc = "call"
    /\ memoNews \in ViewHistories
    /\ memoFavorites \in {<<>>, <<IdOf(1)>>}
    /\ memoCategory \in SidebarCategories
    /\ memoTimeFilter \in {"all", "week"}
    /\ filteredNews = <<>>

ViewOff ==
    /\ vpc = "off"
    /\ memoNews = <<>>
    /\ memoFavorites = <<>>
    /\ memoCategory = CatAll
    /\ memoTimeFilter = "all"
    /\ filteredNews = <<>>

\* the memo is evaluated
ComputeFilteredNews ==
    /\ vpc = "call"
    /\ \E clock \in Clocks :
          filteredNews' \in FilteredNewsResults(memoNews, memoFavorites, memoCategory,
                                                memoTimeFilter, clock)
    /\ vpc' = "done"
    /\ UNCHANGED <<memoNews, memoFavorites, memoCategory, memoTimeFilter,
                   sanitizeVars, parseVars, idVars, appVars, retryVars, mergeVars>>

(***************************************************************************)
(* Specifications.                                                         *)
(***************************************************************************)
AppOff ==
    /\ app = "off"
    /\ vibeNewsHistory = Absent
    /\ vibeFavs = Absent
    /\ news = <<>>
    /\ favorites = <<>>
    /\ loading = FALSE
    /\ isRefreshing = FALSE
    /\ activeCategory = CatAll
    /\ pc = [c \in Cycles |-> "idle"]
    /\ lastData = NoData

\* the App component
Init == AppInit /\ RetryOff /\ MergeOff /\ SanitizeOff /\ ParseOff /\ IdOff /\ ViewOff

Next == AppNext

Spec == Init /\ [][Next]_vars

\* one call of withRetry against an fn that fails arbitrarily
\* One life of the page, from mount to the next reload: the upstream call of
\* every cycle settles, one way or the other, and every timer set fires.
MaxPageBatch == 1
PageBatches == SeqsUpTo(FetchedItems, MaxPageBatch)

Settle(c) ==
    \/ \E items \in PageBatches : FetchResolve(c, items)
    \/ FetchReject(c)

PageNext ==
    \/ ClickSync
    \/ ClickInitiateSync
    \/ \E c \in Cycles, items \in PageBatches : FetchResolve(c, items)
    \/ \E c \in Cycles : FetchReject(c)
    \/ \E c \in Cycles : TimerFire(c)
    \/ \E id \in Ids : ToggleFavorite(id)
    \/ \E cat \in PressedCategories : SetActiveCategory(cat)

PageSpec ==
    /\ Init
    /\ [][PageNext]_vars
    /\ \A c \in Cycles : WF_vars(Settle(c)) /\ WF_vars(TimerFire(c))

RetryStart == AppOff /\ RetryInit /\ MergeOff /\ SanitizeOff /\ ParseOff /\ IdOff /\ ViewOff

RetryNext ==
    \/ WithRetryCall
    \/ FnResolves
    \/ \E error \in ThrownErrors : FnThrows(error)
    \/ DelayElapses

RetrySpec == RetryStart /\ [][RetryNext]_vars

\* the merge as a function of history and batch
MergeStart == AppOff /\ RetryOff /\ MergeInit /\ SanitizeOff /\ ParseOff /\ IdOff /\ ViewOff

MergeNext ==
    \/ MergeFirst
    \/ MergeAgain

MergeSpec == MergeStart /\ [][MergeNext]_vars

\* sanitizeUrl as a function of its argument
SanitizeStart == AppOff /\ RetryOff /\ MergeOff /\ SanitizeInit /\ ParseOff /\ IdOff /\ ViewOff

SanitizeNext == SanitizeCall

SanitizeSpec == SanitizeStart /\ [][SanitizeNext]_vars

\* parseGroundedNews as a function of the text, the citations and the clock
ParseStart == AppOff /\ RetryOff /\ MergeOff /\ SanitizeOff /\ ParseInit /\ IdOff /\ ViewOff

ParseNext == ParseCall

ParseSpec == ParseStart /\ [][ParseNext]_vars

\* generateIdFromUrl as a function of its argument
IdStart == AppOff /\ RetryOff /\ MergeOff /\ SanitizeOff /\ ParseOff /\ IdInit /\ ViewOff

IdNext == GenerateIdCall

IdSpec == IdStart /\ [][IdNext]_vars

\* the filteredNews memo as a function of the history and the filter settings
ViewStart == AppOff /\ RetryOff /\ MergeOff /\ SanitizeOff /\ ParseOff /\ IdOff /\ ViewInit

ViewNext == ComputeFilteredNews

ViewSpec == ViewStart /\ [][ViewNext]_vars


(***************************************************************************)
(* Properties.                                                             *)
(***************************************************************************)
\* the claim's reading of "retryable": status 429, status 503, or a message
\* containing 'overloaded'
ClaimRetryable(error) ==
    \/ error.status = Num(429)
    \/ error.status = Num(503)
    \/ (error.message.type = "string" /\ Includes(error.message.chars, Overloaded))

Content(item) == [k \in ContentKeys |-> item[k]]

EntryOf(items, id) == items[CHOOSE i \in DOMAIN items : items[i].id = id]

FirstWith(items, id) ==
    items[CHOOSE i \in DOMAIN items :
            /\ items[i].id = id
            /\ \A j \in DOMAIN items : items[j].id = id => i <= j]

\* every item of `before` is in `after` with its flag cleared
RetainedCleared(before, after) ==
    \A i \in DOMAIN before :
        \E j \in DOMAIN after : after[j] = WithIsNew(before[i], FALSE)

\* in this step some loadNews call got its fetch result (the try block ran)
FetchCompletes ==
    /\ \E c \in Cycles : pc[c] = "awaiting" /\ pc'[c] = "timer"
    /\ lastData'.kind \in {"merged", "empty"}

\* C1: withRetry never retries indefinitely: fn is invoked at most
\* maxRetries + 1 times (a further attempt is only scheduled while fewer than
\* that were made), and when the run ends rejected on a retryable error, fn
\* was invoked exactly maxRetries + 1 times.
C1_BoundedRetries ==
    /\ calls <= maxRetries + 1
    /\ (rpc = "delay" => calls <= maxRetries)
    /\ (rpc = "rejected" /\ ClaimRetryable(lastError) => calls = maxRetries + 1)

C1_Witness ==
    /\ rpc = "rejected"
    /\ maxRetries = DefaultRetries
    /\ ClaimRetryable(lastError)
    /\ calls = maxRetries + 1

\* C2: the in-memory history never holds two items with the same id, also
\* after a batch that repeats an id of the history or an id of its own.
C2_UniqueIds == DistinctIds(news)

C2_Witness ==
    /\ lastData.kind = "merged"
    /\ lastData.repeats
    /\ lastData.redelivers

\* C3: after merging a non-empty batch, an item is flagged isNew exactly when
\* its id was not in the history before that merge; an id delivered again is
\* never flagged new again.
C3_NewIffUnseen ==
    /\ (mpc \in {"once", "twice"} /\ Len(mItems) > 0) =>
           \A i \in DOMAIN mOnce :
               mOnce[i].isNew <=> (mOnce[i].id \notin IdsOf(mPrev))
    /\ (mpc = "twice" /\ Len(mItems) > 0) =>
           \A i \in DOMAIN mTwice :
               mTwice[i].isNew <=> (mTwice[i].id \notin IdsOf(mOnce))

C3_Witness ==
    /\ mpc = "once"
    /\ IdsOf(mItems) \ IdsOf(mPrev) # {}
    /\ \E i \in DOMAIN mPrev : mPrev[i].isNew /\ mPrev[i].id \in IdsOf(mItems)

\* C4: when an incoming item's id already exists, in the prior history or
\* earlier in the same batch, the existing entry keeps its title, snippet,
\* source, platform, url, category, tool and publishedAt.
C4_ExistingWins ==
    /\ mpc \in {"once", "twice"} =>
           \A i \in DOMAIN mOnce :
               Content(mOnce[i]) =
                   IF mOnce[i].id \in IdsOf(mPrev)
                   THEN Content(EntryOf(mPrev, mOnce[i].id))
                   ELSE Content(FirstWith(mItems, mOnce[i].id))
    /\ mpc = "twice" =>
           \A i \in DOMAIN mTwice :
               Content(mTwice[i]) = Content(EntryOf(mOnce, mTwice[i].id))

C4_Witness ==
    /\ mpc = "twice"
    /\ \E i, j \in DOMAIN mItems :
           /\ i < j
           /\ mItems[i].id = mItems[j].id
           /\ mItems[i].id \notin IdsOf(mPrev)
           /\ Content(mItems[i]) # Content(mItems[j])
           /\ Content(EntryOf(mTwice, mItems[j].id)) = Content(mItems[i])

\* C5 as stated: merge(merge(H, A), A) equals merge(H, A) in its ids and in
\* every field value of every item.
C5_Original == mpc = "twice" => mTwice = mOnce

\* C5 as amended: merge(merge(H, A), A) has the ids of merge(H, A), without
\* duplicates, and every field but isNew as in merge(H, A); isNew is false on
\* every item of the re-merge.
C5_Amended ==
    mpc = "twice" =>
        /\ Len(mTwice) = Len(mOnce)
        /\ DistinctIds(mTwice)
        /\ \A i \in DOMAIN mTwice :
               /\ mTwice[i].id = mOnce[i].id
               /\ Content(mTwice[i]) = Content(mOnce[i])
               /\ mTwice[i].isNew = FALSE

C5_Witness ==
    /\ mpc = "twice"
    /\ \E i \in DOMAIN mOnce : mOnce[i].isNew /\ ~mTwice[i].isNew

\* C6 as stated: after every cycle whose fetch completes without error, a
\* zero-item cycle included, every item of the history is retained with
\* isNew cleared.
C6_Original == [][FetchCompletes => RetainedCleared(news, news')]_vars

\* C6 as amended: a cycle whose fetch delivers at least one item retains
\* every item of the history with isNew cleared; a cycle whose fetch delivers
\* zero items leaves the history, flags included, as it was.
C6_Amended ==
    [][FetchCompletes =>
          IF lastData'.kind = "merged"
          THEN RetainedCleared(news, news')
          ELSE news' = news]_vars

C6_Witness ==
    /\ lastData.kind = "empty"
    /\ \E i \in DOMAIN news : news[i].isNew

\* C7: history only grows: no step, of a successful, empty or failed cycle or
\* of anything else, removes an id from the history.
C7_HistoryOnlyGrows == [][IdsOf(news) \subseteq IdsOf(news')]_vars

C7_Witness ==
    /\ lastData.kind = "merged"
    /\ lastData.redelivers
    /\ Cardinality(IdsOf(news)) = NumIds

\* C8: what is stored under 'vibe-news-history' loads back as exactly the
\* in-memory history, in every state of the running App.
C8_PersistedEqualsMemory ==
    app = "running" => LoadHistory(vibeNewsHistory) = news

C8_Witness ==
    /\ lastData.kind = "merged"
    /\ \E i, j \in DOMAIN news : news[i].isNew /\ ~news[j].isNew

\* C9: at most one sync cycle is in flight at any time, and isRefreshing is
\* true whenever one is.
C9_SingleFlight ==
    /\ Cardinality(InFlight) <= 1
    /\ (InFlight # {} => isRefreshing)

\* C10: a failed attempt is followed by a retry exactly when its error is
\* retryable and retries remain; otherwise withRetry rejects at once, with no
\* further invocation of fn and no delay, and stays rejected.
C10_RetryIffRetryable ==
    [][/\ (rpc = "pending" /\ rpc' \in {"delay", "rejected"}) =>
              /\ (rpc' = "delay") <=> (ClaimRetryable(lastError') /\ retries > 0)
              /\ (rpc' = "rejected") => (calls' = calls /\ waited' = waited)
       /\ (rpc = "rejected") => UNCHANGED <<rpc, calls, waited>>]_vars

C10_Witness ==
    /\ rpc = "rejected"
    /\ ~ClaimRetryable(lastError)
    /\ retries > 0
    /\ Len(waited) > 0

\* in this step some loadNews call saw its fetch reject (the catch block ran)
FetchFails ==
    /\ \E c \in Cycles : pc[c] = "awaiting" /\ pc'[c] = "timer"
    /\ lastData'.kind = "error"

\* C11: when withRetry rejects, the caller receives the very error fn threw
\* in the attempt that ended the sequence.
C11_OriginalErrorPropagates == rpc = "rejected" => rejection = lastError

\* C12: a failed fetch is absorbed: the in-memory history, the persisted
\* history and the favourites are as before the cycle, and the App keeps
\* running with loading false.
C12_FailureAbsorbed ==
    [][FetchFails =>
          /\ news' = news
          /\ vibeNewsHistory' = vibeNewsHistory
          /\ favorites' = favorites
          /\ vibeFavs' = vibeFavs
          /\ app' = "running"
          /\ loading' = FALSE]_vars

C12_Witness ==
    /\ lastData = FetchFailed
    /\ Len(news) > 0
    /\ Len(favorites) > 0
    /\ ~loading

\* C20: at startup an absent stored history gives an empty history, and so
\* does an unparsable one: the App runs, with nothing in its feed.
C20_FailSoftStartup ==
    vibeNewsHistory.kind \in {"absent", "corrupt"} =>
        (app = "running" /\ news = <<>>)

\* C16: a raw value that contains "..." and is shorter than 20 characters
\* is sanitized to the empty string.
C16_ShortEllipsisRejected ==
    (spc = "done" /\ Includes(rawUrl, Ellipsis) /\ Len(rawUrl) < 20) => cleanUrl = <<>>

\* a citation as the claims speak of it: a grounding chunk that carries a uri
CitationUris ==
    {groundingChunks[j].web.uri.chars :
        j \in {k \in DOMAIN groundingChunks :
                  /\ groundingChunks[k].web # Undef
                  /\ groundingChunks[k].web.uri # Undef
                  /\ groundingChunks[k].web.uri.chars # <<>>}}

\* the lines of the text
TextLines == Split(modelText, <<"\n">>)

\* a line is well formed when it holds the marker and at least five
\* ">>>"-separated fields after it
ClaimWellFormed(line) ==
    /\ IndexOf(line, ItemMarker) # -1
    /\ Len(Split(Substring(line, IndexOf(line, ItemMarker) + Len(ItemMarker), Len(line)),
                 FieldSeparator)) >= 5

\* C13: every output url is empty or an absolute http/https url, and holds
\* neither "..." nor a placeholder marker.
C13_UrlsCleanOrEmpty ==
    ppc = "done" =>
        \A i \in DOMAIN verified :
            LET u == verified[i].url
            IN  /\ u = <<>> \/ StartsWith(u, HttpScheme) \/ StartsWith(u, HttpsScheme)
                /\ ~Includes(u, Ellipsis)
                /\ ~Includes(u, ExampleDotCom)
                /\ ~Includes(u, YourUrlHere)

\* C14: the id of every output item is the id derived from its url when the
\* url is not empty, and from its title when it is.
C14_IdFromUrlOrTitle ==
    ppc = "done" =>
        \A i \in DOMAIN verified :
            verified[i].id = generateIdFromUrl(IF verified[i].url # <<>>
                                               THEN verified[i].url
                                               ELSE verified[i].title)

\* C15: an item whose sanitized url equals a citation's uri leaves the
\* verifier as it entered it, all fields alike, and its id is the id derived
\* from its url.
C15_ExactMatchPassthrough ==
    ppc = "done" =>
        \A i \in DOMAIN rawItems :
            rawItems[i].url \in CitationUris =>
                /\ verified[i] = rawItems[i]
                /\ verified[i].id = generateIdFromUrl(rawItems[i].url)

C15_Witness ==
    /\ ppc = "done"
    /\ \E i \in DOMAIN rawItems :
          /\ rawItems[i].url \in CitationUris
          /\ \E c \in DOMAIN VerifiedChunks(groundingChunks) :
                /\ VerifiedChunks(groundingChunks)[c].uri # rawItems[i].url
                /\ Overlap(VerifiedChunks(groundingChunks)[c],
                           ToLowerCase(rawItems[i].title)) > 0

\* C17: a line that is not well formed contributes no record, every line
\* contributes at most one, and the records are those of the text with the
\* malformed lines taken out.
C17_MalformedLinesSkipped ==
    ppc = "done" =>
        LET good == SelectSeq(TextLines, ClaimWellFormed)
        IN  /\ Len(verified) <= Len(good)
            /\ verified = parseGroundedNews(JoinWith(good, <<"\n">>), groundingChunks, now)

C17_Witness ==
    /\ ppc = "done"
    /\ Len(TextLines) = 2
    /\ IndexOf(TextLines[1], ItemMarker) # -1
    /\ ~ClaimWellFormed(TextLines[1])
    /\ ClaimWellFormed(TextLines[2])
    /\ Len(verified) = 1

\* C18: no output item has an empty title.
C18_NoEmptyTitle ==
    ppc = "done" => \A i \in DOMAIN verified : verified[i].title # <<>>

\* C19: the publication date of every output item is a date, and not one
\* after the time of the call.
C19_PublishedNotAfterNow ==
    ppc = "done" =>
        \A i \in DOMAIN verified :
            /\ GetTime(verified[i].publishedAt) # NaN
            /\ GetTime(verified[i].publishedAt).value <= GetTime(now).value

\* C27: the k-th wait lasts initialDelay * 2^(k-1) (1500, 3000, 6000 with
\* the defaults); there is one wait between each attempt and the next, none
\* before the first attempt and none after the last; and a wait is only taken
\* after a retryable failure, followed at once by the next attempt.
C27_ExponentialWaits ==
    /\ [](/\ \A k \in DOMAIN waited : waited[k] = initialDelay * 2^(k - 1)
          /\ Len(waited) = (IF calls = 0 THEN 0 ELSE calls - 1)
          /\ Len(waited) <= maxRetries)
    /\ [][waited' # waited =>
              /\ rpc = "delay"
              /\ ClaimRetryable(lastError)
              /\ Len(waited') = Len(waited) + 1
              /\ calls' = calls + 1
              /\ rpc' = "pending"]_vars

C27_Witness ==
    /\ rpc = "rejected"
    /\ maxRetries = DefaultRetries
    /\ initialDelay = DefaultDelay
    /\ waited = <<1500, 3000, 6000>>

\* 31 * h + c on 32 bits, h a word [hi, lo] and c a code unit
Times31Plus(h, c) ==
    [hi |-> (h.hi * 31 + (h.lo * 31 + c) \div 65536) % 65536,
     lo |-> (h.lo * 31 + c) % 65536]

RECURSIVE RollingHash(_)
\* h after the code units of k: 0 for the empty key, 31 * h + c after each c
RollingHash(k) ==
    IF k = <<>> THEN [hi |-> 0, lo |-> 0]
    ELSE LET front == RollingHash(SubSeq(k, 1, Len(k) - 1))
         IN  IF front.hi >= 0 THEN Times31Plus(front, CharCode(k[Len(k)])) ELSE front

\* m is the absolute value of the word h read as a signed 32-bit integer:
\* h itself when h < 2^31, and otherwise the m with m + h = 2^32
IsAbsOf(m, h) ==
    IF h.hi < 32768 THEN m = h
    ELSE /\ (m.lo + h.lo) % 65536 = 0
         /\ m.hi + h.hi + (m.lo + h.lo) \div 65536 = 65536

RECURSIVE Base36Value(_)
\* the number a run of base-36 digits stands for, as [hi, lo]
Base36Value(digits) ==
    IF digits = <<>> THEN [hi |-> 0, lo |-> 0]
    ELSE LET front == Base36Value(SubSeq(digits, 1, Len(digits) - 1))
             d     == (CHOOSE i \in DOMAIN Base36Digits :
                          Base36Digits[i] = digits[Len(digits)]) - 1
         IN  [hi |-> front.hi * 36 + (front.lo * 36 + d) \div 65536,
              lo |-> (front.lo * 36 + d) % 65536]

\* C26: the id is "vibe-" followed by base-36 digits; the number they stand
\* for is the absolute value of the rolling hash h (h = 0, then 31 * h + c
\* wrapped to signed 32 bits for every code unit c), and it is in 0..2^31.
C26_IdIsAbsHashBase36 ==
    ipc = "done" =>
        LET digits == Substring(derivedId, Len(IdPrefix), Len(derivedId))
            number == Base36Value(digits)
        IN  /\ StartsWith(derivedId, IdPrefix)
            /\ digits # <<>>
            /\ \A i \in DOMAIN digits : \E j \in DOMAIN Base36Digits : Base36Digits[j] = digits[i]
            /\ (Len(digits) > 1 => digits[1] # "0")
            /\ IsAbsOf(number, RollingHash(key))
            /\ (number.hi < 32768 \/ (number.hi = 32768 /\ number.lo = 0))

\* a key whose hash wrapped to a negative value
C26_Witness ==
    /\ ipc = "done"
    /\ RollingHash(key).hi >= 32768
    /\ Len(key) > 20

\* the citations in the order of the list, titles in lower case
Citations ==
    LET Cited(c) == c.web # Undef /\ c.web.uri # Undef /\ c.web.uri.chars # <<>>
        cited == SelectSeq(groundingChunks, Cited)
    IN  [j \in DOMAIN cited |->
            [uri   |-> cited[j].web.uri.chars,
             title |-> IF cited[j].web.title = Undef THEN <<>>
                       ELSE ToLowerCase(cited[j].web.title.chars)]]

\* the overlap count of the j-th citation with the i-th record
OverlapOf(i, j) == Overlap(Citations[j], ToLowerCase(rawItems[i].title))

\* the winning citation for the i-th record: the first of those whose
\* overlap count is the largest
Winner(i) ==
    Citations[CHOOSE j \in DOMAIN Citations :
                 /\ \A k \in DOMAIN Citations : OverlapOf(i, k) <= OverlapOf(i, j)
                 /\ \A k \in 1..(j - 1) : OverlapOf(i, k) < OverlapOf(i, j)]

\* suspect as the claim has it: empty, shorter than 15 characters, without
\* an http(s) scheme, or holding an ellipsis
ClaimSuspect(url) ==
    \/ url = <<>>
    \/ Len(url) < 15
    \/ ~(StartsWith(url, HttpScheme) \/ StartsWith(url, HttpsScheme))
    \/ Includes(url, Ellipsis)

\* the i-th record had its url replaced by a citation's
Substituted(i) ==
    /\ rawItems[i].url \notin CitationUris
    /\ verified[i].url \in CitationUris

\* C22: with citations and no exact match, the output url is the winning
\* citation's uri exactly when the overlap is positive or the url is
\* suspect; otherwise the record keeps its url.
C22_SubstituteIffOverlapOrSuspect ==
    (ppc = "done" /\ Citations # <<>>) =>
        \A i \in DOMAIN rawItems :
            rawItems[i].url \notin CitationUris =>
                LET due == \/ \E j \in DOMAIN Citations : OverlapOf(i, j) > 0
                           \/ ClaimSuspect(rawItems[i].url)
                IN  /\ (verified[i].url = Winner(i).uri) <=> due
                    /\ ~due => verified[i].url = rawItems[i].url

\* C23: when some citation carries a uri, every output url is the uri of a
\* citation.
C23_EveryUrlCited ==
    (ppc = "done" /\ CitationUris # {}) =>
        \A i \in DOMAIN verified : verified[i].url \in CitationUris

\* C24: a substituted url is the uri of the citation with the largest
\* overlap count, the first of them when several share it (all zero
\* included).
C24_FirstMaxOverlapWins ==
    ppc = "done" =>
        \A i \in DOMAIN rawItems : Substituted(i) => verified[i].url = Winner(i).uri

\* a substitution where two citations with different uris tie for the
\* largest overlap
C24_Witness ==
    /\ ppc = "done"
    /\ \E i \in DOMAIN rawItems :
          /\ Substituted(i)
          /\ \E j, k \in DOMAIN Citations :
                /\ j < k
                /\ Citations[j].uri # Citations[k].uri
                /\ OverlapOf(i, j) = OverlapOf(i, k)
                /\ \A l \in DOMAIN Citations : OverlapOf(i, l) <= OverlapOf(i, j)

\* C25: on substitution, a record whose source is neither missing nor the
\* placeholder keeps its source.
C25_SpecificSourceKept ==
    ppc = "done" =>
        \A i \in DOMAIN rawItems :
            (Substituted(i) /\ rawItems[i].source \notin {<<>>, DefaultSource}) =>
                verified[i].source = rawItems[i].source

\* the tag of the items a sidebar category stands for
TagOf(category) ==
    CASE category = CatOfficial  -> <<"o","f","f","i","c","i","a","l">>
      [] category = CatSocial    -> <<"s","o","c","i","a","l">>
      [] category = CatTutorials -> <<"t","u","t","o","r","i","a","l">>
      [] category = CatNews      -> <<"n","e","w","s">>

\* C21: in the displayed feed no item that is not new precedes a new one,
\* and among the new items and among the others the dates never increase
\* from an item to a later one (items whose date is no date set aside).
C21_NewFirstThenNewest ==
    vpc = "done" =>
        \A i, j \in DOMAIN filteredNews :
            i < j =>
                /\ ~(~filteredNews[i].isNew /\ filteredNews[j].isNew)
                /\ (/\ filteredNews[i].isNew = filteredNews[j].isNew
                    /\ GetTime(filteredNews[i].publishedAt) # NaN
                    /\ GetTime(filteredNews[j].publishedAt) # NaN)
                   => GetTime(filteredNews[i].publishedAt).value
                          >= GetTime(filteredNews[j].publishedAt).value

\* C30: under Official, Social, Tutorials or News, with the other filters at
\* rest, every item of the history that carries the corresponding tag is
\* shown.
C30_TaggedItemsShown ==
    (/\ vpc = "done"
     /\ memoTimeFilter = "all"
     /\ memoCategory \in {CatOfficial, CatSocial, CatTutorials, CatNews}) =>
        \A n \in DOMAIN memoNews :
            memoNews[n].category = TagOf(memoCategory) =>
                \E i \in DOMAIN filteredNews : filteredNews[i] = memoNews[n]

\* C28: when two sync cycles overlap, then once both have completed the
\* history holds every id of the history before them and every id of both
\* batches, and what is persisted loads back as the in-memory history.
C28_OverlappingMergesKept ==
    (lastData.kind \in {"merged", "empty"} /\ lastData.overlap = "second") =>
        /\ lastData.owed \subseteq IdsOf(news)
        /\ LoadHistory(vibeNewsHistory) = news

C28_Witness ==
    /\ lastData.kind = "merged"
    /\ lastData.overlap = "second"
    /\ Cardinality(lastData.owed) = NumIds
    /\ \A c \in Cycles : pc[c] \in {"timer", "idle"}
    /\ \E i, j \in DOMAIN news : news[i].isNew /\ ~news[j].isNew

\* C29: every sync cycle that starts finishes its bookkeeping, whether its
\* fetch resolves or rejects: it leaves the await with loading false and its
\* progress interval cleared, and later its timer has fired, the cycle is
\* over and isRefreshing is false.
C29_CycleFinishes ==
    \A c \in Cycles :
        /\ (pc[c] = "awaiting") ~> (pc[c] = "timer" /\ ~loading)
        /\ (pc[c] = "awaiting") ~> (pc[c] = "idle" /\ ~loading /\ ~isRefreshing)

C29_Witness ==
    /\ app = "running"
    /\ lastData = FetchFailed
    /\ \A c \in Cycles : pc[c] = "idle"
    /\ ~loading
    /\ ~isRefreshing

=============================================================================
